---- MODULE Spec2Model ----
(***************************************************************************)
(* Model of 02_readAndPlotEEG.py: recovery of an EEG recording from a      *)
(* semi-documented binary file.                                            *)
(*                                                                         *)
(*   detect_binary_offset   header/data boundary heuristic                 *)
(*   main (lines 100-105)   decoding of the interleaved int16 samples      *)
(*   extract_markers        scan of the file tail for marker tokens        *)
(*   markers_to_events      event codes in first-seen order                *)
(*   check_for_nans         filter of per-condition averages               *)
(*   main                   the whole pipeline                             *)
(*                                                                         *)
(* A file is a sequence of bytes (0..255), 1-indexed here; a Python        *)
(* position p is the element p + 1.  Real numbers that the program holds   *)
(* as float64 are the exact fractions [num, den] in lowest terms; the      *)
(* inputs are chosen so that the float64 arithmetic of the program is      *)
(* exact on them (sampling rates are powers of two).                       *)
(***************************************************************************)
EXTENDS Integers, Sequences, FiniteSets, TLC

VARIABLES
    pc,            \* position of the running function
    file,          \* the bytes of the file on disk
    min_offset,    \* detect_binary_offset: argument
    max_scan,      \* detect_binary_offset: argument
    offset,        \* detect_binary_offset: result / main: OFFSET
    printed,       \* diagnostics printed so far
    data,          \* main: the decoded matrix, data[c][s], before scaling
    n_bytes,       \* extract_markers: argument
    sfreq,         \* extract_markers, markers_to_events: argument
    markers,       \* extract_markers: result / markers_to_events: argument
    events,        \* markers_to_events: rows of the events array
    event_id,      \* markers_to_events: label -> code
    evoked_dict,   \* check_for_nans: argument, in insertion order
    valid_evokeds, \* check_for_nans: result, in insertion order
    valid_markers, \* main: markers within the data range
    annotations,   \* main: what raw.set_annotations receives
    raised,        \* the exception that ended the run, or "none"
    eeg_file_readable \* whether the path EEG_FILE of line 15 can be opened

vars == <<pc, file, min_offset, max_scan, offset, printed, data, n_bytes,
          sfreq, markers, events, event_id, evoked_dict, valid_evokeds,
          valid_markers, annotations, raised, eeg_file_readable>>

----------------------------------------------------------------------------
(* Program constants.                                                      *)

SFREQ == 256
N_BYTES_MARKERS == 8192
N_CHANNELS == 19
DEFAULT_MIN_OFFSET == 200
DEFAULT_MAX_SCAN == 20000
window == 1024
step == 32
DEFAULT_OFFSET == 1024
None == -1

----------------------------------------------------------------------------
(* Helpers on sequences.                                                   *)

Min(S) == CHOOSE m \in S : \A o \in S : m <= o

\* data[a:b] of Python for 0 <= a, 0 <= b (positions clamp to the length).
Slice(s, a, b) ==
    LET hi == IF b > Len(s) THEN Len(s) ELSE b
    IN  IF a >= hi THEN << >> ELSE SubSeq(s, a + 1, hi)

\* Sum of f[lo..hi], by halving so that the evaluation stays shallow.
RECURSIVE SumRange(_, _, _)
SumRange(f, lo, hi) ==
    IF lo > hi THEN 0
    ELSE IF lo = hi THEN f[lo]
    ELSE LET m == (lo + hi) \div 2
         IN  SumRange(f, lo, m) + SumRange(f, m + 1, hi)

----------------------------------------------------------------------------
(* detect_binary_offset                                                    *)

\* line 30: 32 <= b <= 126 or b in (9, 10, 13)
IsPrintable(b) == (32 <= b /\ b <= 126) \/ b \in {9, 10, 13}

\* line 38: np.mean(printable[i:i+window]) < threshold, threshold = 0.2.
\* The mean is count / n; count / n < 0.2 iff 5 * count < n.
FracPrintableBelowThreshold(bytes, i) ==
    LET win == Slice(bytes, i, i + window)
        n == Len(win)
        count == SumRange([k \in 1..n |-> IF IsPrintable(win[k]) THEN 1 ELSE 0],
                          1, n)
    IN  5 * count < n

\* line 39 and 42: np.std(byte_values[i:i+window]) > 20, the population
\* standard deviation: variance > 400, i.e. n*S2 - S1^2 > 400*n^2 with S1
\* the sum and S2 the sum of squares.  With S1 = q*n + r this is
\* S2 - q*q*n - 2*q*r - 400*n > r*r/n, which stays within 32 bits.
StddevAbove20(bytes, i) ==
    LET win == Slice(bytes, i, i + window)
        n == Len(win)
        S1 == SumRange(win, 1, n)
        S2 == SumRange([k \in 1..n |-> win[k] * win[k]], 1, n)
        q == S1 \div n
        r == S1 % n
    IN  S2 - q * q * n - 2 * q * r - 400 * n > (r * r) \div n

\* line 42: the test of one candidate position.
IsBinaryWindow(bytes, i) ==
    FracPrintableBelowThreshold(bytes, i) /\ StddevAbove20(bytes, i)

\* Number of candidates of range(lo, hi, step) (line 36).
RangeCount(lo, hi) == IF hi <= lo THEN 0 ELSE (hi - lo + step - 1) \div step

\* lines 36-44: candidates number a..b of the range, visited in increasing
\* order, the first hit ending the loop (break).  The range is halved, the
\* left half first, so that the evaluation stays shallow; the right half
\* is only looked at when the left half has no hit.
RECURSIVE ScanFrom(_, _, _, _)
ScanFrom(bytes, lo, a, b) ==
    IF a > b THEN None
    ELSE IF a = b
         THEN IF IsBinaryWindow(bytes, lo + a * step) THEN lo + a * step
              ELSE None
    ELSE LET m == (a + b) \div 2
             left == ScanFrom(bytes, lo, a, m)
         IN  IF left # None THEN left ELSE ScanFrom(bytes, lo, m + 1, b)

\* lines 27-53: what is printed, and the value returned or the exception
\* raised.  Lines 51-52 open the path EEG_FILE of the module, not the
\* argument, and read the header from it; the bytes read are not used, but
\* the open fails when that path cannot be opened (readable = FALSE), after
\* both messages are printed.
detect_binary_offset(bytes, minoff, maxscan, readable) ==
    LET read == Slice(bytes, 0, maxscan)                       \* line 28
        found == ScanFrom(read, minoff, 0,
                          RangeCount(minoff, Len(read) - window) - 1)
        off == IF found = None THEN DEFAULT_OFFSET ELSE found   \* line 48
        out == (IF found = None
                THEN <<<<"No clear transition detected - use default 1024 bytes">>>>
                ELSE << >>)                                    \* line 47
               \o <<<<"Binary data probably starting at byte", off>>>> \* line 50
    IN  IF readable
        THEN [raised |-> "none", offset |-> off, printed |-> out]
        ELSE [raised |-> "FileNotFoundError", offset |-> None, printed |-> out]

----------------------------------------------------------------------------
(* main, lines 100-105: decoding of the samples                            *)

\* One int16 of np.fromfile (line 100): two bytes, low byte first (numpy's
\* int16 has the byte order of the machine, little-endian here), two's
\* complement.
Int16LE(lo, hi) ==
    LET u == lo + 256 * hi
    IN  IF u >= 32768 THEN u - 65536 ELSE u

\* line 100: np.fromfile(EEG_FILE, dtype=np.int16, offset=o), for
\* o <= Len(bytes) + 1: the complete items after the first o bytes; a
\* trailing odd byte is left unread.
np_fromfile_int16(bytes, o) ==
    [k \in 1..((Len(bytes) - o) \div 2) |->
        Int16LE(bytes[o + 2 * k - 1], bytes[o + 2 * k])]

\* lines 103-105 with reshape(n_channels, n_samples) and no transpose: the
\* flat samples cut row by row.
ReshapeRowMajor(flat) ==
    LET n_samples == Len(flat) \div N_CHANNELS
    IN  [c \in 1..N_CHANNELS |->
            [t \in 1..n_samples |-> flat[(c - 1) * n_samples + t]]]

\* lines 102-105: n_samples = data.size // n_channels, the flat samples cut
\* to n_samples * n_channels, reshape(n_samples, n_channels) and transpose:
\* row c of the result holds every n_channels-th sample from sample c on.
ReshapeTranspose(flat) ==
    LET n_samples == Len(flat) \div N_CHANNELS
    IN  [c \in 1..N_CHANNELS |->
            [t \in 1..n_samples |-> flat[(t - 1) * N_CHANNELS + c]]]

\* The number of samples per channel of a decoded matrix (data.shape[1]).
NSamples(d) == Len(d[1])

----------------------------------------------------------------------------
(* extract_markers                                                         *)

\* line 60: the alternatives of marker_re, in the order of the pattern, as
\* text and as latin-1 bytes.
TOKENS ==
    << [text |-> "Augen auf", bytes |-> <<65, 117, 103, 101, 110, 32, 97, 117, 102>>],
       [text |-> "Augen zu",  bytes |-> <<65, 117, 103, 101, 110, 32, 122, 117>>],
       [text |-> "HV Anfang", bytes |-> <<72, 86, 32, 65, 110, 102, 97, 110, 103>>],
       [text |-> "HV Ende",   bytes |-> <<72, 86, 32, 69, 110, 100, 101>>],
       [text |-> "IGNORED",   bytes |-> <<73, 71, 78, 79, 82, 69, 68>>] >>

\* s[a:b] of Python, negative positions counted from the end.
PySlice(s, a, b) ==
    LET norm(x) == IF x >= 0 THEN x
                   ELSE IF x + Len(s) < 0 THEN 0 ELSE x + Len(s)
    IN  Slice(s, norm(a), norm(b))

\* Whether alternative j matches at position p of the tail.
TokenAt(tail, p, j) ==
    /\ p + Len(TOKENS[j].bytes) <= Len(tail)
    /\ \A k \in 1..Len(TOKENS[j].bytes) : tail[p + k] = TOKENS[j].bytes[k]

\* The alternative the pattern matches at position p: the first one in the
\* order of the pattern; 0 when none matches there.
MatchAt(tail, p) ==
    LET js == {j \in 1..Len(TOKENS) : TokenAt(tail, p, j)}
    IN  IF js = {} THEN 0 ELSE Min(js)

\* line 62: marker_re.finditer(tail) from position `from` on: the leftmost
\* match, then the matches after its end.
RECURSIVE FindIter(_, _)
FindIter(tail, from) ==
    LET starts == {p \in from..(Len(tail) - 1) : MatchAt(tail, p) # 0}
    IN  IF starts = {} THEN << >>
        ELSE LET p == Min(starts)
                 j == MatchAt(tail, p)
             IN  <<[start |-> p, tok |-> j]>>
                     \o FindIter(tail, p + Len(TOKENS[j].bytes))

\* line 67: struct.unpack("<I", b)[0] of four bytes (values below 2^31:
\* the files of the model hold no byte above 127 in front of a token).
Uint32LE(b) == b[1] + 256 * b[2] + 65536 * b[3] + 16777216 * b[4]

RECURSIVE GCD(_, _)
GCD(a, b) == IF b = 0 THEN a ELSE GCD(b, a % b)

\* The real number n / d, d > 0, n >= 0, in lowest terms.
Frac(n, d) == LET g == GCD(n, d) IN [num |-> n \div g, den |-> d \div g]

\* a <= b on such numbers: by the integer parts, then by the rests (the
\* products of the rests stay small).
FracLeq(a, b) ==
    LET ia == a.num \div a.den
        ib == b.num \div b.den
    IN  \/ ia < ib
        \/ ia = ib /\ (a.num % a.den) * b.den <= (b.num % b.den) * a.den

\* MarkersOf appending in front (events.insert(0, ...)): last match first.
RECURSIVE MarkersOfReversed(_, _, _)
MarkersOfReversed(tail, ms, sf) ==
    IF ms = << >> THEN << >>
    ELSE LET start == Head(ms).start
             prefix == PySlice(tail, start - 8, start)
             rest == MarkersOfReversed(tail, Tail(ms), sf)
         IN  IF Len(prefix) >= 4
             THEN rest \o <<[onset |-> Frac(Uint32LE(SubSeq(prefix, 1, 4)), sf),
                             text |-> TOKENS[Head(ms).tok].text]>>
             ELSE rest

\* lines 61-70: the loop over the matches; ms are the matches left.
RECURSIVE MarkersOf(_, _, _)
MarkersOf(tail, ms, sf) ==
    IF ms = << >> THEN << >>
    ELSE LET start == Head(ms).start                             \* line 64
             prefix == PySlice(tail, start - 8, start)           \* line 65
             rest == MarkersOf(tail, Tail(ms), sf)
         IN  IF Len(prefix) >= 4                                 \* line 66
             THEN <<[onset |-> Frac(Uint32LE(SubSeq(prefix, 1, 4)), sf),
                     text |-> TOKENS[Head(ms).tok].text]>> \o rest
             ELSE rest

\* lines 57-70: f.seek(-n_bytes, os.SEEK_END) raises OSError (EINVAL) when
\* it would move before the start of the file.
extract_markers(bytes, nbytes, sf) ==
    IF nbytes > Len(bytes)
    THEN [raised |-> "OSError", markers |-> << >>]
    ELSE LET tail == Slice(bytes, Len(bytes) - nbytes, Len(bytes))
         IN  [raised |-> "none",
              markers |-> MarkersOf(tail, FindIter(tail, 0), sf)]

----------------------------------------------------------------------------
(* markers_to_events                                                       *)

\* round(n / d), d > 0, n >= 0, halves to the even neighbour.
RoundNearest(n, d) ==
    LET q == n \div d
        r2 == 2 * (n % d)
    IN  IF r2 < d THEN q
        ELSE IF r2 > d THEN q + 1
        ELSE IF q % 2 = 0 THEN q ELSE q + 1

\* line 79: int(x) of the real number n / d, d > 0: the fraction is cut off
\* (towards zero).
IntOf(n, d) == IF n >= 0 THEN n \div d ELSE -((-n) \div d)

\* line 78 without the "+ 1": codes from 0.
NextCodeFromZero(eid) == Cardinality(DOMAIN eid)

\* line 78: len(event_id) + 1.
NextCode(eid) == Cardinality(DOMAIN eid) + 1

\* lines 76-80: the loop; ms are the markers left, eid and evs the table
\* and the rows so far.
RECURSIVE EventsLoop(_, _, _, _)
EventsLoop(ms, sf, eid, evs) ==
    IF ms = << >> THEN [events |-> evs, event_id |-> eid]
    ELSE LET onset == Head(ms).onset
             desc == Head(ms).text
             eid2 == IF desc \in DOMAIN eid THEN eid               \* line 77
                     ELSE eid @@ (desc :> NextCode(eid))          \* line 78
             sample_idx == IntOf(onset.num * sf, onset.den)       \* line 79
         IN  EventsLoop(Tail(ms), sf, eid2,
                        Append(evs, <<sample_idx, 0, eid2[desc]>>))

\* lines 72-81.
markers_to_events(ms, sf) == EventsLoop(ms, sf, << >>, << >>)

----------------------------------------------------------------------------
(* check_for_nans                                                          *)

\* float64 values: finite ones, not-a-number and the two infinities.
Finite(v) == [kind |-> "finite", val |-> v]
NaN == [kind |-> "nan", val |-> 0]
PosInf == [kind |-> "inf", val |-> 1]
NegInf == [kind |-> "inf", val |-> -1]

\* np.isnan(x)
np_isnan(x) == x.kind = "nan"

\* line 87: np.isnan(evoked.data).any()
AnyNaN(d) == \E k \in 1..Len(d) : np_isnan(d[k])

\* lines 85-91: the entries of the dictionary in insertion order; what is
\* kept and what is printed.
RECURSIVE check_for_nans(_)
check_for_nans(entries) ==
    IF entries = << >> THEN [valid |-> << >>, printed |-> << >>]
    ELSE LET e == Head(entries)
             rest == check_for_nans(Tail(entries))
         IN  IF AnyNaN(e.data)
             THEN [valid |-> rest.valid,
                   printed |-> <<<<e.cond, "contains NaNs - skipped">>>>
                                   \o rest.printed]
             ELSE [valid |-> <<e>> \o rest.valid, printed |-> rest.printed]

----------------------------------------------------------------------------
(* main, lines 114-132: the markers within the data range                  *)

\* line 121: raw.times[-1], the time of the last sample, (n - 1) / SFREQ
\* (raw.times is np.arange(n) / sfreq); for n >= 1.
LastTime(d) == Frac(NSamples(d) - 1, SFREQ)

\* line 121: 0 <= on <= raw.times[-1]; an onset is never negative here.
InDataRange(m, d) == m.onset.num >= 0 /\ FracLeq(m.onset, LastTime(d))

\* line 121: whether the comprehension raises IndexError.  raw.times[-1]
\* stands in the condition, which is evaluated once per marker, and in a
\* chained comparison, which reaches it only when 0 <= on holds: it is read,
\* and fails on an empty raw.times, when there are no samples and some
\* marker has a non-negative onset.  With no markers it is never read.
FilterRaises(ms, d) ==
    NSamples(d) = 0 /\ \E k \in 1..Len(ms) : ms[k].onset.num >= 0

\* line 121: the list comprehension, when it does not raise (a marker with
\* a negative onset is left out before raw.times is read).
RECURSIVE WithinRange(_, _)
WithinRange(ms, d) ==
    IF ms = << >> THEN << >>
    ELSE IF InDataRange(Head(ms), d)
         THEN <<Head(ms)>> \o WithinRange(Tail(ms), d)
         ELSE WithinRange(Tail(ms), d)

\* line 124: f"{onset:.3f}", the onset with three decimals, as the number
\* of thousandths: the nearest one, a tie going to the even one (the onsets
\* are exact in float64, and the formatting rounds the exact value).
Format3f(x) ==
    LET n == x.num * 1000
        q == n \div x.den
        r2 == 2 * (n % x.den)
    IN  IF r2 < x.den THEN q
        ELSE IF r2 > x.den THEN q + 1
        ELSE IF q % 2 = 0 THEN q ELSE q + 1

\* lines 122-124: the count of the markers kept, then one line for each.
PrintValid(ms) ==
    <<<<"Marker within data range:", Len(ms)>>>>
    \o [k \in 1..Len(ms) |-> <<Format3f(ms[k].onset), "s", ms[k].text>>]

\* lines 127-131: mne.Annotations(onset, duration, description).
Annotations(ms) ==
    [onset |-> [k \in 1..Len(ms) |-> ms[k].onset],
     duration |-> [k \in 1..Len(ms) |-> 1],
     description |-> [k \in 1..Len(ms) |-> ms[k].text]]

----------------------------------------------------------------------------
(* Files the model is run on.                                              *)

\* n bytes of header text: capital letters.
Text(n) == [k \in 1..n |-> 65 + (k % 26)]

\* n bytes of sample data of one of three kinds:
\*   "binary"  no printable byte, widely spread values
\*   "flat"    no printable byte, all values equal
\*   "loud"    printable bytes only, widely spread values
Body(kind, n) ==
    [k \in 1..n |->
        CASE kind = "binary" -> IF k % 2 = 0 THEN 128 + ((k * 37) % 128)
                                ELSE 255 * ((k \div 2) % 2)
          [] kind = "flat"   -> 0
          [] OTHER           -> IF k % 2 = 0 THEN 32 ELSE 126]

BodyKinds == {"binary", "flat", "loud"}

----------------------------------------------------------------------------
(* Specification of detect_binary_offset alone.                            *)

MaxHeaderUnits == 4
MaxBodyUnits == 5

InitDetect ==
    /\ pc = "detect"
    /\ \E h \in 0..MaxHeaderUnits, b \in 0..MaxBodyUnits, a \in {0, 24},
          kind \in BodyKinds :
          file = Text(100 * h) \o Body(kind, 256 * b + a)
    /\ min_offset \in {DEFAULT_MIN_OFFSET, 0}
    /\ max_scan \in {DEFAULT_MAX_SCAN, 1280}
    /\ offset = None /\ printed = << >>
    /\ data = << >> /\ n_bytes = 0 /\ sfreq = SFREQ /\ markers = << >>
    /\ events = << >> /\ event_id = << >> /\ evoked_dict = << >>
    /\ valid_evokeds = << >> /\ valid_markers = << >> /\ annotations = << >>
    /\ raised = "none"
    /\ eeg_file_readable \in BOOLEAN

\* detect_binary_offset(filename, min_offset, max_scan), lines 25-53.
Detect(from, to) ==
    /\ pc = from
    /\ LET r == detect_binary_offset(file, min_offset, max_scan,
                                     eeg_file_readable)
       IN  /\ raised' = r.raised
           /\ offset' = IF r.raised = "none" THEN r.offset ELSE offset
           /\ printed' = printed \o r.printed
           /\ pc' = IF r.raised = "none" THEN to ELSE "raised"
    /\ UNCHANGED <<file, min_offset, max_scan, data, n_bytes, sfreq, markers,
                   events, event_id, evoked_dict, valid_evokeds,
                   valid_markers, annotations, eeg_file_readable>>

DetectBinaryOffset == Detect("detect", "detected")

NextDetect == DetectBinaryOffset

SpecDetect == InitDetect /\ [][NextDetect]_vars

\* The bytes detect_binary_offset reads (line 28): at most max_scan.
ReadLen == IF Len(file) < max_scan THEN Len(file) ELSE max_scan

\* The positions the loop of line 36 visits.
Candidates ==
    {i \in min_offset..(ReadLen - window - 1) : (i - min_offset) % step = 0}

\* The candidates whose window is binary: fewer than a fifth of its 1024
\* bytes printable and a standard deviation above 20.
Qualifying ==
    {i \in Candidates :
        /\ 5 * Cardinality({k \in (i + 1)..(i + window) : IsPrintable(file[k])})
              < window
        /\ StddevAbove20(file, i)}

\* What detect_binary_offset returns by the claim: the smallest qualifying
\* candidate, or the default 1024 after the diagnostic when there is none;
\* a returned candidate lies in min_offset .. max_scan - window.
ReturnedAsClaimed ==
    /\ IF Qualifying = {}
       THEN /\ offset = DEFAULT_OFFSET
            /\ Len(printed) = 2
            /\ printed[2] = <<"Binary data probably starting at byte",
                              DEFAULT_OFFSET>>
       ELSE /\ offset = Min(Qualifying)
            /\ printed = <<<<"Binary data probably starting at byte", offset>>>>
    /\ \/ offset = DEFAULT_OFFSET
       \/ min_offset <= offset /\ offset <= max_scan - window

\* C1: for every byte stream detect_binary_offset returns the smallest
\* scanned position min_offset + 32*k (below the end of the bytes read minus
\* the window) whose window has a printable fraction below 0.2 and a standard
\* deviation above 20; when no scanned position qualifies it prints the
\* diagnostic, returns the default 1024 and continues without failing.
C1_FirstQualifyingOrDefault ==
    pc # "detect" => pc = "detected" /\ raised = "none" /\ ReturnedAsClaimed

\* C1, the part that holds: whenever detect_binary_offset returns, which it
\* does exactly when the path EEG_FILE can be opened, the value returned and
\* the diagnostic are as the claim says.
C1_ReturnedValue ==
    /\ pc = "detected" => ReturnedAsClaimed
    /\ pc # "detect" => (pc = "detected" <=> eeg_file_readable)

\* A run in which the scan passed over candidates that do not qualify and
\* then found one that does.
C1_Witness ==
    /\ pc = "detected"
    /\ offset \in Qualifying
    /\ offset > min_offset
    /\ Cardinality(Qualifying) > 1

\* C2: the offset detect_binary_offset returns satisfies
\* 0 <= offset <= file_length, also when the default is used.
C2_OffsetWithinFile ==
    pc = "detected" => 0 <= offset /\ offset <= Len(file)

----------------------------------------------------------------------------
(* Specification of the decoding alone: main, lines 100-105, entered with  *)
(* an offset within the file.                                              *)

MaxSampleBytes == 80

\* n bytes without any regularity of period 2 or 38.
Noise(seed, n) == [k \in 1..n |-> (k * seed + (k \div 7) * 11 + 3) % 256]

InitDecode ==
    /\ pc = "decode"
    /\ \E o \in {0, 3, 10}, r \in 0..MaxSampleBytes, seed \in {37, 101} :
          /\ file = Noise(seed, o + r)
          /\ offset = o
    /\ min_offset = 0 /\ max_scan = 0 /\ printed = << >>
    /\ data = << >> /\ n_bytes = 0 /\ sfreq = SFREQ /\ markers = << >>
    /\ events = << >> /\ event_id = << >> /\ evoked_dict = << >>
    /\ valid_evokeds = << >> /\ valid_markers = << >> /\ annotations = << >>
    /\ raised = "none"
    /\ eeg_file_readable = TRUE

\* main, lines 100-105; line 101 prints data.size, the number of items read.
Decode(from, to) ==
    /\ pc = from
    /\ data' = ReshapeTranspose(np_fromfile_int16(file, offset))
    /\ printed' = printed \o <<<<"Length data: ",
                                 Len(np_fromfile_int16(file, offset))>>>>
    /\ pc' = to
    /\ UNCHANGED <<file, min_offset, max_scan, offset, n_bytes,
                   sfreq, markers, events, event_id, evoked_dict,
                   valid_evokeds, valid_markers, annotations, raised>>
    /\ UNCHANGED eeg_file_readable

DecodeSamples == Decode("decode", "decoded")

NextDecode == DecodeSamples

SpecDecode == InitDecode /\ [][NextDecode]_vars

\* The signed 16-bit value of the two bytes at byte position p after the
\* offset, low byte first.
SampleAt(p) ==
    ((file[offset + p + 1] + 256 * file[offset + p + 2] + 32768) % 65536)
        - 32768

\* C3: the decoded matrix has one row per channel, each of
\* floor((L - o) / (C * 2)) samples; entry (c, s) is the little-endian signed
\* 16-bit value at flat sample position s*C + c after the offset; the
\* trailing partial cycle is dropped, and with less than one full cycle left
\* the matrix has C rows of no samples.
C3_Deinterleaved ==
    pc = "decoded" =>
        /\ Len(data) = N_CHANNELS
        /\ \A c \in 0..(N_CHANNELS - 1) :
              /\ Len(data[c + 1]) = (Len(file) - offset) \div (N_CHANNELS * 2)
              /\ \A t \in 0..(Len(data[c + 1]) - 1) :
                    data[c + 1][t + 1] = SampleAt(2 * (t * N_CHANNELS + c))

\* C3 witness: two full cycles and a partial one were decoded, with a
\* negative sample among them.
C3_Witness ==
    /\ pc = "decoded"
    /\ NSamples(data) = 2
    /\ (Len(file) - offset) % (N_CHANNELS * 2) # 0
    /\ \E c \in 1..N_CHANNELS : data[c][2] < 0

----------------------------------------------------------------------------
(* Specification of extract_markers alone.                                 *)

MaxPieces == 4

\* The four bytes of a sample index, low byte first.
LE32(v) == <<v % 256, (v \div 256) % 256, (v \div 65536) % 256,
             (v \div 16777216) % 256>>

\* What a marker block is made of: a sample index followed by four more
\* bytes, a bare sample index, and tokens.
Pieces ==
    { LE32(2560) \o <<1, 0, 0, 0>>,
      LE32(70000) \o <<2, 0, 0, 0>>,
      LE32(7),
      TOKENS[1].bytes, TOKENS[2].bytes, TOKENS[5].bytes }

RECURSIVE Blocks(_)
Blocks(n) ==
    IF n = 0 THEN {<< >>}
    ELSE LET shorter == Blocks(n - 1)
         IN  shorter \cup {b \o q : b \in shorter, q \in Pieces}

InitMarkers ==
    /\ pc = "extract"
    /\ file \in Blocks(MaxPieces)
    /\ n_bytes \in {13, 17, 21, 30}
    /\ sfreq \in {SFREQ, 128}
    /\ min_offset = 0 /\ max_scan = 0 /\ offset = None /\ printed = << >>
    /\ data = << >> /\ markers = << >>
    /\ events = << >> /\ event_id = << >> /\ evoked_dict = << >>
    /\ valid_evokeds = << >> /\ valid_markers = << >> /\ annotations = << >>
    /\ raised = "none"
    /\ eeg_file_readable = TRUE

\* extract_markers(path, n_bytes, sfreq), lines 55-70.
Extract(from, to) ==
    /\ pc = from
    /\ LET r == extract_markers(file, n_bytes, sfreq)
       IN  /\ raised' = r.raised
           /\ markers' = r.markers
           /\ pc' = IF r.raised = "none" THEN to ELSE "raised"
    /\ UNCHANGED <<file, min_offset, max_scan, offset, printed, data, n_bytes,
                   sfreq, events, event_id, evoked_dict, valid_evokeds,
                   valid_markers, annotations>>
    /\ UNCHANGED eeg_file_readable

ExtractMarkers == Extract("extract", "extracted")

NextMarkers == ExtractMarkers

SpecMarkers == InitMarkers /\ [][NextMarkers]_vars

\* The tail extract_markers scans: the last n_bytes bytes of the file.
TailOf == [k \in 1..n_bytes |-> file[Len(file) - n_bytes + k]]

\* The tail positions at which a token stands.
Occurrences ==
    {p \in 0..(n_bytes - 1) :
        \E j \in 1..Len(TOKENS) :
            /\ p + Len(TOKENS[j].bytes) <= n_bytes
            /\ SubSeq(TailOf, p + 1, p + Len(TOKENS[j].bytes)) = TOKENS[j].bytes}

\* The text of the token at an occurrence.
TextAt(p) ==
    LET j == CHOOSE i \in 1..Len(TOKENS) :
                 /\ p + Len(TOKENS[i].bytes) <= n_bytes
                 /\ SubSeq(TailOf, p + 1, p + Len(TOKENS[i].bytes))
                        = TOKENS[i].bytes
    IN  TOKENS[j].text

\* The k-th smallest element of a set of numbers.
Kth(S, k) == CHOOSE x \in S : Cardinality({y \in S : y < x}) = k - 1

\* The marker read from the four bytes at tail positions q .. q+3 for the
\* token at p.
MarkerFrom(q, p) ==
    [onset |-> Frac(TailOf[q + 1] + 256 * TailOf[q + 2] + 65536 * TailOf[q + 3]
                        + 16777216 * TailOf[q + 4], sfreq),
     text |-> TextAt(p)]

\* C4: when the file is shorter than n_bytes, extract_markers does not fail
\* and returns the markers of the whole file.
C4_ShortFileScannedWhole ==
    (pc # "extract" /\ n_bytes > Len(file)) =>
        pc = "extracted" /\ raised = "none"

\* C5: every token occurrence with at least 4 bytes before it (p >= 4, also
\* 4 <= p <= 7) yields a marker whose index is read from the first 4 of the
\* up to 8 bytes before the match; occurrences with p < 4 are skipped.
C5_FourBytesSuffice ==
    pc = "extracted" =>
        LET P == {p \in Occurrences : p >= 4}
        IN  /\ Len(markers) = Cardinality(P)
            /\ \A k \in 1..Cardinality(P) :
                  LET p == Kth(P, k)
                  IN  markers[k] = MarkerFrom(IF p >= 8 THEN p - 8 ELSE 0, p)

\* C8 as claimed: the markers returned are in increasing onset order.
C8_IncreasingOnset ==
    pc = "extracted" =>
        \A j, k \in 1..Len(markers) :
            j < k => FracLeq(markers[j].onset, markers[k].onset)

\* C8 as amended: the markers returned are in increasing tail position order:
\* the k-th marker is that of the k-th token occurrence with 8 bytes before
\* it, its onset the index stored in the first 4 of those 8 bytes divided by
\* the sampling rate, whatever the order of the stored indices.
C8_FileOrder ==
    pc = "extracted" =>
        LET P == {p \in Occurrences : p >= 8}
        IN  /\ Len(markers) = Cardinality(P)
            /\ \A k \in 1..Cardinality(P) :
                  markers[k] = MarkerFrom(Kth(P, k) - 8, Kth(P, k))

\* C8 witness: two markers were extracted, the later one with the smaller
\* onset.
C8_Witness ==
    /\ pc = "extracted"
    /\ Len(markers) >= 2
    /\ ~FracLeq(markers[1].onset, markers[2].onset)

----------------------------------------------------------------------------
(* Specification of markers_to_events alone.                               *)

MaxMarkers == 3

Onsets == {Frac(0, 1), Frac(3, 4), Frac(10, 1), Frac(3, 512), Frac(5, 4)}

Labels == {TOKENS[1].text, TOKENS[2].text, TOKENS[5].text}

RECURSIVE SeqsUpTo(_, _)
SeqsUpTo(S, n) ==
    IF n = 0 THEN {<< >>}
    ELSE LET shorter == SeqsUpTo(S, n - 1)
         IN  shorter \cup {Append(q, x) : q \in shorter, x \in S}

InitEvents ==
    /\ pc = "encode"
    /\ markers \in SeqsUpTo([onset : Onsets, text : Labels], MaxMarkers)
    /\ sfreq \in {SFREQ, 1}
    /\ file = << >>
    /\ min_offset = 0 /\ max_scan = 0 /\ offset = None /\ printed = << >>
    /\ data = << >> /\ n_bytes = 0
    /\ events = << >> /\ event_id = << >> /\ evoked_dict = << >>
    /\ valid_evokeds = << >> /\ valid_markers = << >> /\ annotations = << >>
    /\ raised = "none"
    /\ eeg_file_readable = TRUE

\* markers_to_events(markers, sfreq), lines 72-81.
MarkersToEvents ==
    /\ pc = "encode"
    /\ LET r == markers_to_events(markers, sfreq)
       IN  /\ events' = r.events
           /\ event_id' = r.event_id
    /\ pc' = "encoded"
    /\ UNCHANGED <<file, min_offset, max_scan, offset, printed, data, n_bytes,
                   sfreq, markers, evoked_dict, valid_evokeds, valid_markers,
                   annotations, raised>>
    /\ UNCHANGED eeg_file_readable

NextEvents == MarkersToEvents

SpecEvents == InitEvents /\ [][NextEvents]_vars

\* The labels of the markers and the position at which each first appears.
LabelsSeen == {markers[k].text : k \in 1..Len(markers)}
FirstSeen(l) == Min({k \in 1..Len(markers) : markers[k].text = l})

\* C6: markers_to_events emits one event per marker, in input order, and
\* maps each distinct label to its 1-based rank in first-seen order: the
\* codes are exactly 1..k for k distinct labels, no two labels share a code,
\* and the code a label has after any prefix of the markers is the code it
\* has at the end.
C6_FirstSeenCodes ==
    pc = "encoded" =>
        /\ Len(events) = Len(markers)
        /\ DOMAIN event_id = LabelsSeen
        /\ \A l \in LabelsSeen :
              event_id[l] =
                  Cardinality({m \in LabelsSeen : FirstSeen(m) <= FirstSeen(l)})
        /\ {event_id[l] : l \in LabelsSeen} = 1..Cardinality(LabelsSeen)
        /\ \A l, m \in LabelsSeen : event_id[l] = event_id[m] => l = m
        /\ \A k \in 1..Len(markers) :
              /\ events[k][3] = event_id[markers[k].text]
              /\ events[k][2] = 0
              /\ LET sofar == markers_to_events(SubSeq(markers, 1, k), sfreq).event_id
                 IN  \A l \in DOMAIN sofar : sofar[l] = event_id[l]

\* C6 witness: the second distinct label appears twice before a third one
\* appears.
C6_Witness ==
    /\ pc = "encoded"
    /\ Len(markers) >= 3
    /\ Cardinality(LabelsSeen) = 2
    /\ markers[1].text # markers[2].text
    /\ markers[3].text = markers[2].text
    /\ events[3][3] = 2

\* C9 as claimed: the sample index of an event is onset * sfreq rounded to
\* the nearest integer.
C9_Rounded ==
    pc = "encoded" =>
        \A k \in 1..Len(markers) :
            events[k][1] =
                RoundNearest(markers[k].onset.num * sfreq, markers[k].onset.den)

\* C9 as amended: for a marker with onset >= 0 the sample index of its event
\* is onset * sfreq with the fraction cut off, the largest integer not above
\* the product; it is the rounded value only when the fraction is below one
\* half.
C9_Truncated ==
    pc = "encoded" =>
        \A k \in 1..Len(markers) :
            LET n == markers[k].onset.num * sfreq
                d == markers[k].onset.den
            IN  /\ events[k][1] * d <= n
                /\ n < (events[k][1] + 1) * d

\* C9 witness: an event whose product has a fraction of a half or more, so
\* that rounding and cutting differ.
C9_Witness ==
    /\ pc = "encoded"
    /\ \E k \in 1..Len(markers) :
          /\ 2 * ((markers[k].onset.num * sfreq) % markers[k].onset.den)
                >= markers[k].onset.den
          /\ events[k][1] = (markers[k].onset.num * sfreq)
                                \div markers[k].onset.den

----------------------------------------------------------------------------
(* Specification of check_for_nans alone.                                  *)

MaxEntries == 3

Conditions == {"A", "B", "C", "D"}

DataChoices ==
    { <<Finite(1), Finite(2), Finite(3)>>,
      <<Finite(1), Finite(2), NaN>>,
      <<Finite(1), PosInf, Finite(3)>>,
      <<NegInf>>,
      <<NaN, PosInf>>,
      << >> }

\* Dictionaries: entries with distinct keys, in insertion order.
Dicts ==
    {d \in SeqsUpTo([cond : Conditions, data : DataChoices], MaxEntries) :
        \A j, k \in 1..Len(d) : j # k => d[j].cond # d[k].cond}

InitNans ==
    /\ pc = "check"
    /\ evoked_dict \in Dicts
    /\ file = << >>
    /\ min_offset = 0 /\ max_scan = 0 /\ offset = None /\ printed = << >>
    /\ data = << >> /\ n_bytes = 0 /\ sfreq = SFREQ /\ markers = << >>
    /\ events = << >> /\ event_id = << >>
    /\ valid_evokeds = << >> /\ valid_markers = << >> /\ annotations = << >>
    /\ raised = "none"
    /\ eeg_file_readable = TRUE

\* check_for_nans(evoked_dict), lines 83-91.
CheckForNans ==
    /\ pc = "check"
    /\ LET r == check_for_nans(evoked_dict)
       IN  /\ valid_evokeds' = r.valid
           /\ printed' = printed \o r.printed
    /\ pc' = "checked"
    /\ UNCHANGED <<file, min_offset, max_scan, offset, data, n_bytes, sfreq,
                   markers, events, event_id, evoked_dict, valid_markers,
                   annotations, raised>>
    /\ UNCHANGED eeg_file_readable

NextNans == CheckForNans

SpecNans == InitNans /\ [][NextNans]_vars

\* The positions of the entries with a value of the given kinds, and of the
\* others.
With(kinds) ==
    {k \in 1..Len(evoked_dict) :
        \E i \in 1..Len(evoked_dict[k].data) :
            evoked_dict[k].data[i].kind \in kinds}
Without(kinds) == (1..Len(evoked_dict)) \ With(kinds)

\* The result keeps exactly the entries without a value of these kinds,
\* unchanged and in their order, and one diagnostic names each other entry.
DropsExactly(kinds) ==
    /\ Len(valid_evokeds) = Cardinality(Without(kinds))
    /\ \A j \in 1..Len(valid_evokeds) :
          valid_evokeds[j] = evoked_dict[Kth(Without(kinds), j)]
    /\ Len(printed) = Cardinality(With(kinds))
    /\ \A j \in 1..Len(printed) :
          printed[j][1] = evoked_dict[Kth(With(kinds), j)].cond

\* C7 as claimed: check_for_nans drops exactly the entries with at least one
\* non-finite value (not-a-number or an infinity), names each in a
\* diagnostic, and passes the others through unchanged and in order.
C7_NonFiniteDropped == pc = "checked" => DropsExactly({"nan", "inf"})

\* C7, the part that holds: check_for_nans drops exactly the entries with at
\* least one not-a-number value, names each in a diagnostic, and passes the
\* others through unchanged and in order; an entry with infinities and no
\* not-a-number is kept, where the claim has it dropped.
C7_NaNDropped == pc = "checked" => DropsExactly({"nan"})

\* A run in which an entry with a not-a-number was dropped between two that
\* were kept, one of them holding an infinity.
C7_Witness ==
    /\ pc = "checked"
    /\ Len(evoked_dict) = 3
    /\ With({"nan"}) = {2}
    /\ With({"inf"}) = {3}
    /\ Len(valid_evokeds) = 2

----------------------------------------------------------------------------
(* Specification of main: the pipeline on one file, with the parameters    *)
(* of the module (SFREQ, N_BYTES_MARKERS) and the defaults of               *)
(* detect_binary_offset.  Lines 107-112 and 134 hand the matrix to the      *)
(* plotting library and are not modelled.                                   *)

MaxRecords == 2

\* A marker record: a sample index, four more bytes and a token.
MarkerRecords ==
    { LE32(0) \o <<1, 0, 0, 0>> \o TOKENS[1].bytes,
      LE32(209) \o <<1, 0, 0, 0>> \o TOKENS[2].bytes,
      LE32(210) \o <<1, 0, 0, 0>> \o TOKENS[1].bytes,
      LE32(215) \o <<1, 0, 0, 0>> \o TOKENS[3].bytes,
      LE32(2560) \o <<1, 0, 0, 0>> \o TOKENS[5].bytes }

RECURSIVE MarkerBlocks(_)
MarkerBlocks(n) ==
    IF n = 0 THEN {<< >>}
    ELSE LET shorter == MarkerBlocks(n - 1)
         IN  shorter \cup {b \o q : b \in shorter, q \in MarkerRecords}

\* Recordings: a header, 8000 bytes of samples and a marker block.
LongFiles ==
    {Text(h) \o Body("binary", 8000) \o b :
        h \in {200, 500}, b \in MarkerBlocks(MaxRecords)}

\* Files cut off shortly after the header: with the default offset, less
\* than one cycle of samples, or a few cycles.
ShortFiles ==
    {Text(1000) \o Body("flat", r) : r \in {23, 40, 61, 62, 100, 400}}

InitMain ==
    /\ pc = "L98"
    /\ file \in LongFiles \cup ShortFiles
    /\ min_offset = DEFAULT_MIN_OFFSET
    /\ max_scan = DEFAULT_MAX_SCAN
    /\ n_bytes = N_BYTES_MARKERS
    /\ sfreq = SFREQ
    /\ offset = None /\ printed = << >> /\ data = << >> /\ markers = << >>
    /\ events = << >> /\ event_id = << >> /\ evoked_dict = << >>
    /\ valid_evokeds = << >> /\ valid_markers = << >> /\ annotations = << >>
    /\ raised = "none"
    /\ eeg_file_readable = TRUE

\* line 98
MainLoad ==
    /\ pc = "L98"
    /\ printed' = printed \o <<<<"loading file: ", "EEG_FILE">>>>
    /\ pc' = "L99"
    /\ UNCHANGED <<file, min_offset, max_scan, offset, data, n_bytes, sfreq,
                   markers, events, event_id, evoked_dict, valid_evokeds,
                   valid_markers, annotations, raised, eeg_file_readable>>

\* line 99: the argument is EEG_FILE itself, which line 27 has just opened.
MainDetect == Detect("L99", "L100")

\* lines 100-105
MainDecode == Decode("L100", "L115")

\* line 115
MainExtract == Extract("L115", "L121")

\* lines 121-124: the markers within the data range, and what is printed
\* about them; raw.times[-1] of an empty raw.times raises IndexError when a
\* marker makes the comprehension read it.  Without samples and without
\* markers nothing is read and the list is empty.
MainFilter ==
    /\ pc = "L121"
    /\ IF FilterRaises(markers, data)
       THEN /\ raised' = "IndexError"
            /\ pc' = "raised"
            /\ UNCHANGED <<valid_markers, printed>>
       ELSE /\ valid_markers' = WithinRange(markers, data)
            /\ printed' = printed \o PrintValid(WithinRange(markers, data))
            /\ pc' = "L127"
            /\ UNCHANGED raised
    /\ UNCHANGED <<file, min_offset, max_scan, offset, data, n_bytes,
                   sfreq, markers, events, event_id, evoked_dict,
                   valid_evokeds, annotations>>
    /\ UNCHANGED eeg_file_readable

\* lines 127-132
MainAnnotate ==
    /\ pc = "L127"
    /\ annotations' = Annotations(valid_markers)
    /\ pc' = "done"
    /\ UNCHANGED <<file, min_offset, max_scan, offset, printed, data, n_bytes,
                   sfreq, markers, events, event_id, evoked_dict,
                   valid_evokeds, valid_markers, raised>>
    /\ UNCHANGED eeg_file_readable

NextMain ==
    \/ MainLoad
    \/ MainDetect
    \/ MainDecode
    \/ MainExtract
    \/ MainFilter
    \/ MainAnnotate

SpecMain == InitMain /\ [][NextMain]_vars

\* C10: in main every marker handed to the annotations has an onset within
\* [0, duration of the decoded buffer], the markers outside are left out, in
\* file order, and the run is not aborted, also when the decoded buffer has
\* no samples.
C10_OutOfRangeDiscardedNoAbort ==
    /\ pc = "done" =>
          /\ \A k \in 1..Len(annotations.onset) :
                FracLeq(annotations.onset[k], LastTime(data))
          /\ Len(annotations.onset)
                = Cardinality({k \in 1..Len(markers) :
                                  FracLeq(markers[k].onset, LastTime(data))})
    /\ ~(pc = "raised" /\ NSamples(data) = 0)

====
